---- MODULE Spec2Model ----
(***************************************************************************)
(* Pill-O-Tron: enumeration of periodic dosage schedules and selection of  *)
(* one optimal schedule per reachable mean (src/pill-o-tron.py).           *)
(*                                                                         *)
(* Dosages are Fraction(q, 4); the model keeps the integer q (quarters).   *)
(* mean() and stddev() return Python floats.  They are modelled as IEEE    *)
(* binary64 values with round-to-nearest-even.  TLC integers are 32 bits   *)
(* wide, so the 53-bit significands and their exact products are kept as   *)
(* little-endian sequences of limbs in radix 2^15 ("Big" numbers).         *)
(* Only non-negative floats occur: dosages are non-negative and the only   *)
(* signed intermediate, dosage - mean, is squared at once.                 *)
(***************************************************************************)
EXTENDS Integers, Sequences, FiniteSets, TLC

(***************************************************************************)
(* Bounds of the model.                                                    *)
(***************************************************************************)
MaxPeriod == 9
MaxSchedules == 70
MaxStacks == 4
MaxTotal == 9
MaxCount == 2

(***************************************************************************)
(* Arbitrary-precision naturals: <<l1, ..., ln>> is l1 + l2*Base + ...,    *)
(* without high zero limbs; zero is <<>>.                                  *)
(***************************************************************************)
LimbBits == 15
Base == 2^LimbBits
MantBits == 53

RECURSIVE BigNorm(_)
BigNorm(x) ==
    IF x = <<>> THEN <<>>
    ELSE IF x[Len(x)] = 0 THEN BigNorm(SubSeq(x, 1, Len(x) - 1))
    ELSE x

RECURSIVE BigFromInt(_)
BigFromInt(n) ==
    IF n = 0 THEN <<>> ELSE <<n % Base>> \o BigFromInt(n \div Base)

RECURSIVE BigAddC(_, _, _)
BigAddC(x, y, c) ==
    IF x = <<>> /\ y = <<>> THEN (IF c = 0 THEN <<>> ELSE <<c>>)
    ELSE LET a == IF x = <<>> THEN 0 ELSE Head(x)
             b == IF y = <<>> THEN 0 ELSE Head(y)
             t == a + b + c
         IN  <<t % Base>> \o BigAddC(IF x = <<>> THEN <<>> ELSE Tail(x),
                                     IF y = <<>> THEN <<>> ELSE Tail(y),
                                     t \div Base)

BigAdd(x, y) == BigAddC(x, y, 0)

\* x - y for x >= y
RECURSIVE BigSubB(_, _, _)
BigSubB(x, y, b) ==
    IF x = <<>> THEN <<>>
    ELSE LET s == IF y = <<>> THEN 0 ELSE Head(y)
             t == Head(x) - s - b
         IN  <<t % Base>> \o BigSubB(Tail(x),
                                     IF y = <<>> THEN <<>> ELSE Tail(y),
                                     IF t < 0 THEN 1 ELSE 0)

BigSub(x, y) == BigNorm(BigSubB(x, y, 0))

\* -1, 0, 1 as x <, =, > y
RECURSIVE BigCmpFrom(_, _, _)
BigCmpFrom(x, y, i) ==
    IF i = 0 THEN 0
    ELSE IF x[i] < y[i] THEN -1
    ELSE IF x[i] > y[i] THEN 1
    ELSE BigCmpFrom(x, y, i - 1)

BigCmp(x, y) ==
    IF Len(x) < Len(y) THEN -1
    ELSE IF Len(x) > Len(y) THEN 1
    ELSE BigCmpFrom(x, y, Len(x))

\* x * k + c for 0 <= k, c < Base
RECURSIVE BigMulSmallC(_, _, _)
BigMulSmallC(x, k, c) ==
    IF x = <<>> THEN (IF c = 0 THEN <<>> ELSE <<c>>)
    ELSE LET t == Head(x) * k + c
         IN  <<t % Base>> \o BigMulSmallC(Tail(x), k, t \div Base)

BigMulSmall(x, k) == IF k = 0 THEN <<>> ELSE BigMulSmallC(x, k, 0)

BigLimbShift(x) == IF x = <<>> THEN <<>> ELSE <<0>> \o x

RECURSIVE BigMul(_, _)
BigMul(x, y) ==
    IF y = <<>> \/ x = <<>> THEN <<>>
    ELSE BigAdd(BigMulSmall(x, Head(y)), BigLimbShift(BigMul(x, Tail(y))))

\* quotient and remainder of x by 0 < k < Base, from the top limb down
RECURSIVE BigDivModSmall(_, _)
BigDivModSmall(x, k) ==
    IF x = <<>> THEN [q |-> <<>>, r |-> 0]
    ELSE LET hi == BigDivModSmall(Tail(x), k)
             t  == hi.r * Base + Head(x)
         IN  [q |-> BigNorm(<<t \div k>> \o hi.q), r |-> t % k]

RECURSIVE BigZeros(_)
BigZeros(n) == IF n = 0 THEN <<>> ELSE <<0>> \o BigZeros(n - 1)

BigShl(x, s) ==
    IF x = <<>> THEN <<>>
    ELSE BigMulSmallC(BigZeros(s \div LimbBits) \o x, 2^(s % LimbBits), 0)

BigShr(x, s) ==
    IF Len(x) <= s \div LimbBits THEN <<>>
    ELSE BigDivModSmall(SubSeq(x, (s \div LimbBits) + 1, Len(x)), 2^(s % LimbBits)).q

RECURSIVE IntBitLen(_)
IntBitLen(n) == IF n = 0 THEN 0 ELSE 1 + IntBitLen(n \div 2)

BigBitLen(x) ==
    IF x = <<>> THEN 0 ELSE (Len(x) - 1) * LimbBits + IntBitLen(x[Len(x)])

BigIsOdd(x) == x # <<>> /\ x[1] % 2 = 1

\* floor of the square root, one result bit per iteration
RECURSIVE BigISqrtIter(_, _, _)
BigISqrtIter(M, r, i) ==
    IF i < 0 THEN r
    ELSE LET c == BigAdd(r, BigShl(<<1>>, i))
         IN  IF BigCmp(BigMul(c, c), M) <= 0
             THEN BigISqrtIter(M, c, i - 1)
             ELSE BigISqrtIter(M, r, i - 1)

BigISqrt(M) == BigISqrtIter(M, <<>>, BigBitLen(M) \div 2)

(***************************************************************************)
(* Floats: [m, e] is m * 2^e with m a Big of exactly MantBits bits, or     *)
(* FZero.  The representation is canonical, so = is float equality.        *)
(***************************************************************************)
FZero == [m |-> <<>>, e |-> 0]

\* the double nearest to (M + f) * 2^E, ties to even, where 0 <= f < 1 and
\* f # 0 iff sticky
FRound(M, E, sticky) ==
    IF M = <<>> THEN FZero
    ELSE LET n == BigBitLen(M) IN
         IF n <= MantBits
         THEN [m |-> BigShl(M, MantBits - n), e |-> E - (MantBits - n)]
         ELSE LET s     == n - MantBits
                  q1    == BigShr(M, s - 1)
                  lowz  == BigShl(q1, s - 1) = M
                  q     == BigShr(q1, 1)
                  up    == BigIsOdd(q1) /\ (~lowz \/ sticky \/ BigIsOdd(q))
                  q2    == IF up THEN BigAdd(q, <<1>>) ELSE q
              IN  IF BigBitLen(q2) > MantBits
                  THEN [m |-> BigShr(q2, 1), e |-> E + s + 1]
                  ELSE [m |-> q2, e |-> E + s]

FFromInt(n) == FRound(BigFromInt(n), 0, FALSE)

\* int / int true division, which is what float(Fraction) performs
FFromRatio(n, d) ==
    LET qr == BigDivModSmall(BigShl(BigFromInt(n), 75), d)
    IN  FRound(qr.q, -75, qr.r # 0)

FLess(a, b) ==
    IF b = FZero THEN FALSE
    ELSE IF a = FZero THEN TRUE
    ELSE a.e < b.e \/ (a.e = b.e /\ BigCmp(a.m, b.m) < 0)

FLeq(a, b) == a = b \/ FLess(a, b)

FAlign(a, b) ==
    LET e == IF a.e < b.e THEN a.e ELSE b.e
    IN  [A |-> BigShl(a.m, a.e - e), B |-> BigShl(b.m, b.e - e), e |-> e]

FAdd(a, b) ==
    IF a = FZero THEN b
    ELSE IF b = FZero THEN a
    ELSE LET al == FAlign(a, b) IN FRound(BigAdd(al.A, al.B), al.e, FALSE)

\* |a - b|; the sign of dosage - mean is dropped by the square that follows
FAbsSub(a, b) ==
    IF a = FZero THEN b
    ELSE IF b = FZero THEN a
    ELSE LET al == FAlign(a, b)
         IN  IF BigCmp(al.A, al.B) >= 0
             THEN FRound(BigSub(al.A, al.B), al.e, FALSE)
             ELSE FRound(BigSub(al.B, al.A), al.e, FALSE)

FMul(a, b) ==
    IF a = FZero \/ b = FZero THEN FZero
    ELSE FRound(BigMul(a.m, b.m), a.e + b.e, FALSE)

\* float / int for 0 < p < Base
FDivInt(a, p) ==
    IF a = FZero THEN FZero
    ELSE LET qr == BigDivModSmall(BigShl(a.m, 2 * LimbBits), p)
         IN  FRound(qr.q, a.e - 2 * LimbBits, qr.r # 0)

FSqrt(a) ==
    IF a = FZero THEN FZero
    ELSE LET k == IF (a.e - 54) % 2 = 0 THEN 54 ELSE 55
             M == BigShl(a.m, k)
             s == BigISqrt(M)
         IN  FRound(s, (a.e - k) \div 2, BigMul(s, s) # M)

(***************************************************************************)
(* DosageSchedule: [possible_dosages, counts].  possible_dosages holds the *)
(* numerators q of the dosages Fraction(q, 4).                              *)
(***************************************************************************)
DosageSchedule(possible_dosages, counts) ==
    [possible_dosages |-> possible_dosages, counts |-> counts]

RECURSIVE SumSeq(_)
SumSeq(xs) == IF xs = <<>> THEN 0 ELSE Head(xs) + SumSeq(Tail(xs))

\* zip() stops at the shorter of its arguments
ZipLen(s) ==
    IF Len(s.possible_dosages) < Len(s.counts)
    THEN Len(s.possible_dosages) ELSE Len(s.counts)

\* mutant: sums only the counts that zip() pairs with a dosage
period_Zipped(s) == SumSeq(SubSeq(s.counts, 1, ZipLen(s)))

period(s) == SumSeq(s.counts)

\* sum(dosage * count ...) in quarters: the numerator of the exact Fraction
RECURSIVE WeightedSum(_, _)
WeightedSum(s, n) ==
    IF n = 0 THEN 0
    ELSE WeightedSum(s, n - 1) + s.possible_dosages[n] * s.counts[n]

\* mutant: divides by the number of counts instead of the period
mean_OverLen(s) == FFromRatio(WeightedSum(s, ZipLen(s)), 4 * Len(s.counts))

\* defined for period(s) # 0; the division raises ZeroDivisionError otherwise
mean(s) == FFromRatio(WeightedSum(s, ZipLen(s)), 4 * period(s))

\* sum((dosage - mean) ** 2 * count ...): dosage - mean is float(dosage) - mean,
\* ** 2 the correctly rounded square, and sum() adds the terms left to right
\* with one rounding per addition (CPython up to 3.11)
RECURSIVE VarianceSum(_, _, _)
VarianceSum(s, m, n) ==
    IF n = 0 THEN FZero
    ELSE LET d == FAbsSub(FFromRatio(s.possible_dosages[n], 4), m)
         IN  FAdd(VarianceSum(s, m, n - 1),
                  FMul(FMul(d, d), FFromInt(s.counts[n])))

\* mutant: the squared deviations are not weighted by the counts
RECURSIVE UnweightedSum(_, _, _)
UnweightedSum(s, m, n) ==
    IF n = 0 THEN FZero
    ELSE LET d == FAbsSub(FFromRatio(s.possible_dosages[n], 4), m)
         IN  FAdd(UnweightedSum(s, m, n - 1), FMul(d, d))

stddev_Unweighted(s) ==
    FSqrt(FDivInt(UnweightedSum(s, mean(s), ZipLen(s)), period(s)))

stddev(s) ==
    FSqrt(FDivInt(VarianceSum(s, mean(s), ZipLen(s)), period(s)))

(***************************************************************************)
(* generate_partitions                                                     *)
(***************************************************************************)
\* mutant: range(0, total)
LastStackBound_Short(total) == total - 1

\* the largest last_stack of range(0, total + 1)
LastStackBound(total) == total

\* stacks_before_solution + (last_stack, ) for every solution of the call
ExtendSolutions(stacks_before_solutions, last_stack) ==
    [k \in 1..Len(stacks_before_solutions) |->
        Append(stacks_before_solutions[k], last_stack)]

RECURSIVE generate_partitions(_, _), GPLoop(_, _, _)
generate_partitions(num_stacks, total) ==
    IF num_stacks = 0
    THEN (IF total = 0 THEN << <<>> >> ELSE <<>>)
    ELSE GPLoop(num_stacks, total, 0)

\* the iterations last_stack, last_stack + 1, ... of the for loop
GPLoop(num_stacks, total, last_stack) ==
    IF last_stack > LastStackBound(total) THEN <<>>
    ELSE ExtendSolutions(generate_partitions(num_stacks - 1, total - last_stack),
                         last_stack)
         \o GPLoop(num_stacks, total, last_stack + 1)

(***************************************************************************)
(* fraction_to_dosage_string and schedule_as_string.  A str is modelled as *)
(* the sequence of its characters.                                         *)
(***************************************************************************)
RECURSIVE Gcd(_, _)
Gcd(a, b) == IF b = 0 THEN a ELSE Gcd(b, a % b)

\* Fraction(q, 4) in lowest terms
Numerator(q) == q \div Gcd(q, 4)
Denominator(q) == 4 \div Gcd(q, 4)

DigitChar(d) == <<"0", "1", "2", "3", "4", "5", "6", "7", "8", "9">>[d + 1]

\* str(n) for an int n >= 0
RECURSIVE IntStr(_)
IntStr(n) ==
    IF n < 10 THEN <<DigitChar(n)>>
    ELSE Append(IntStr(n \div 10), DigitChar(n % 10))

\* str(Fraction(q, 4))
FractionStr(q) ==
    IF Denominator(q) = 1 THEN IntStr(Numerator(q))
    ELSE IntStr(Numerator(q)) \o <<"/">> \o IntStr(Denominator(q))

\* mutant: the letters of 1/2 and 1/4 exchanged
fraction_to_dosage_string_Swapped(q) ==
    IF Denominator(q) = 1 /\ 0 <= Numerator(q) /\ Numerator(q) <= 9
    THEN IntStr(Numerator(q))
    ELSE IF Numerator(q) = 1 /\ Denominator(q) = 2 THEN <<"k">>
    ELSE IF Numerator(q) = 1 /\ Denominator(q) = 4 THEN <<"h">>
    ELSE IF Numerator(q) = 3 /\ Denominator(q) = 2 THEN <<"a">>
    ELSE <<"(">> \o FractionStr(q) \o <<")">>

fraction_to_dosage_string(q) ==
    IF Denominator(q) = 1 /\ 0 <= Numerator(q) /\ Numerator(q) <= 9
    THEN IntStr(Numerator(q))
    ELSE IF Numerator(q) = 1 /\ Denominator(q) = 2 THEN <<"h">>
    ELSE IF Numerator(q) = 1 /\ Denominator(q) = 4 THEN <<"k">>
    ELSE IF Numerator(q) = 3 /\ Denominator(q) = 2 THEN <<"a">>
    ELSE <<"(">> \o FractionStr(q) \o <<")">>

\* count * str
RECURSIVE StrRepeat(_, _)
StrRepeat(count, str) ==
    IF count <= 0 THEN <<>> ELSE str \o StrRepeat(count - 1, str)

\* "".join(specs) over the first n pairs of the zip
RECURSIVE ScheduleString(_, _)
ScheduleString(s, n) ==
    IF n = 0 THEN <<>>
    ELSE ScheduleString(s, n - 1)
         \o (IF s.counts[n] # 0
             THEN StrRepeat(s.counts[n], fraction_to_dosage_string(s.possible_dosages[n]))
             ELSE <<>>)

schedule_as_string(s) == ScheduleString(s, ZipLen(s))

(***************************************************************************)
(* State.  main(): pc, the parsed arguments and the locals of main.        *)
(* gp_*: one top-level call of generate_partitions.  ds_*: one             *)
(* DosageSchedule value and the results of its methods.                    *)
(***************************************************************************)
VARIABLES pc, possible_daily_dosages, max_period, possible_dosages,
          next_period, schedules, next_schedule, schedules_by_mean,
          means_reachable, next_mean, optimal_schedules,
          gp_pc, gp_num_stacks, gp_total, gp_last_stack, gp_solutions,
          ds_pc, ds_possible_dosages, ds_counts, ds_schedule,
          ds_mean, ds_stddev, ds_period, ds_string

main_vars == <<pc, possible_daily_dosages, max_period, possible_dosages,
               next_period, schedules, next_schedule, schedules_by_mean,
               means_reachable, next_mean, optimal_schedules>>
gp_vars == <<gp_pc, gp_num_stacks, gp_total, gp_last_stack, gp_solutions>>
ds_vars == <<ds_pc, ds_possible_dosages, ds_counts, ds_schedule,
             ds_mean, ds_stddev, ds_period, ds_string>>
vars == <<main_vars, gp_vars, ds_vars>>

None == "None"

MainIdle ==
    /\ pc = "idle" /\ possible_daily_dosages = <<>> /\ max_period = 0
    /\ possible_dosages = <<>> /\ next_period = 0 /\ schedules = <<>>
    /\ next_schedule = 0 /\ schedules_by_mean = <<>> /\ means_reachable = <<>>
    /\ next_mean = 0 /\ optimal_schedules = <<>>

GpIdle ==
    /\ gp_pc = "idle" /\ gp_num_stacks = 0 /\ gp_total = 0
    /\ gp_last_stack = 0 /\ gp_solutions = <<>>

DsIdle ==
    /\ ds_pc = "idle" /\ ds_possible_dosages = <<>> /\ ds_counts = <<>>
    /\ ds_schedule = None /\ ds_mean = None /\ ds_stddev = None
    /\ ds_period = None /\ ds_string = None

(***************************************************************************)
(* main()                                                                  *)
(***************************************************************************)
\* --possible-daily-dosages values, in eighths of a pill
DosageInputs ==
    { <<0, 8>>, <<14, 0>>, <<0, 4, 8, 16>>, <<0, 8, 16, 24>>,
      <<0, 4, 12, 16>>, <<0, 2, 4>>, <<2, 6, 14>>, <<8, 9, 8>> }

\* round(dosage * 4) for dosage = x / 8: round half to even
Quantize(x) ==
    IF x % 2 = 0 THEN x \div 2
    ELSE IF (x \div 2) % 2 = 0 THEN x \div 2 ELSE (x \div 2) + 1

RECURSIVE SortedInts(_)
SortedInts(S) ==
    IF S = {} THEN <<>>
    ELSE LET lo == CHOOSE x \in S : \A y \in S : x <= y
         IN  <<lo>> \o SortedInts(S \ {lo})

\* sorted(set(Fraction(round(dosage * 4), 4) for dosage in ...))
ParseDosages(input) ==
    SortedInts({Quantize(input[k]) : k \in 1..Len(input)})

RECURSIVE Binomial(_, _)
Binomial(n, k) ==
    IF k = 0 THEN 1
    ELSE IF n = 0 THEN 0
    ELSE Binomial(n - 1, k - 1) + Binomial(n - 1, k)

\* mutant: range(1, args.max_period)
LastPeriod_Short(p) == p - 1

\* the last period of range(1, args.max_period + 1)
LastPeriod(p) == p

Init ==
    /\ pc = "start"
    /\ possible_daily_dosages \in DosageInputs
    /\ max_period \in 1..MaxPeriod
    /\ Binomial(max_period + Len(ParseDosages(possible_daily_dosages)),
                Len(ParseDosages(possible_daily_dosages))) - 1 <= MaxSchedules
    /\ possible_dosages = <<>> /\ next_period = 0 /\ schedules = <<>>
    /\ next_schedule = 0 /\ schedules_by_mean = <<>> /\ means_reachable = <<>>
    /\ next_mean = 0 /\ optimal_schedules = <<>>
    /\ GpIdle /\ DsIdle

ParseArgs ==
    /\ pc = "start"
    /\ possible_dosages' = ParseDosages(possible_daily_dosages)
    /\ schedules' = <<>>
    /\ next_period' = 1
    /\ pc' = "enumerate"
    /\ UNCHANGED <<possible_daily_dosages, max_period, next_schedule,
                   schedules_by_mean, means_reachable, next_mean,
                   optimal_schedules, gp_vars, ds_vars>>

\* one iteration of "for period in range(1, args.max_period + 1)"
EnumeratePeriod ==
    /\ pc = "enumerate"
    /\ next_period <= LastPeriod(max_period)
    /\ LET partitions == generate_partitions(Len(possible_dosages), next_period)
       IN  schedules' = schedules \o
               [k \in 1..Len(partitions) |->
                   DosageSchedule(possible_dosages, partitions[k])]
    /\ next_period' = next_period + 1
    /\ UNCHANGED <<pc, possible_daily_dosages, max_period, possible_dosages,
                   next_schedule, schedules_by_mean, means_reachable,
                   next_mean, optimal_schedules, gp_vars, ds_vars>>

EnumerateDone ==
    /\ pc = "enumerate"
    /\ next_period > LastPeriod(max_period)
    /\ schedules_by_mean' = <<>>
    /\ next_schedule' = 1
    /\ pc' = "group"
    /\ UNCHANGED <<possible_daily_dosages, max_period, possible_dosages,
                   next_period, schedules, means_reachable, next_mean,
                   optimal_schedules, gp_vars, ds_vars>>

\* schedules_by_mean is a dict: a sequence of [mean, schedules] entries in
\* insertion order, with distinct keys
HasKey(dict, key) == \E k \in 1..Len(dict) : dict[k].mean = key
Lookup(dict, key) ==
    dict[CHOOSE k \in 1..Len(dict) : dict[k].mean = key].schedules
DictAppend(dict, key, schedule) ==
    IF HasKey(dict, key)
    THEN [k \in 1..Len(dict) |->
            IF dict[k].mean = key
            THEN [dict[k] EXCEPT !.schedules = Append(@, schedule)]
            ELSE dict[k]]
    ELSE Append(dict, [mean |-> key, schedules |-> <<schedule>>])

\* one iteration of "for schedule in schedules"
GroupSchedule ==
    /\ pc = "group"
    /\ next_schedule <= Len(schedules)
    /\ schedules_by_mean' =
           DictAppend(schedules_by_mean, mean(schedules[next_schedule]),
                      schedules[next_schedule])
    /\ next_schedule' = next_schedule + 1
    /\ UNCHANGED <<pc, possible_daily_dosages, max_period, possible_dosages,
                   next_period, schedules, means_reachable, next_mean,
                   optimal_schedules, gp_vars, ds_vars>>

\* insert x into the ascending sequence xs
RECURSIVE FInsert(_, _)
FInsert(xs, x) ==
    IF xs = <<>> THEN <<x>>
    ELSE IF FLess(x, Head(xs)) THEN <<x>> \o xs
    ELSE <<Head(xs)>> \o FInsert(Tail(xs), x)

RECURSIVE FSorted(_)
FSorted(xs) ==
    IF xs = <<>> THEN <<>>
    ELSE FInsert(FSorted(SubSeq(xs, 1, Len(xs) - 1)), xs[Len(xs)])

\* mutant: the keys in insertion order
SortedKeys_Unsorted(dict) == [k \in 1..Len(dict) |-> dict[k].mean]

\* sorted(schedules_by_mean): the keys in ascending order
SortedKeys(dict) == FSorted([k \in 1..Len(dict) |-> dict[k].mean])

GroupDone ==
    /\ pc = "group"
    /\ next_schedule > Len(schedules)
    /\ means_reachable' = SortedKeys(schedules_by_mean)
    /\ optimal_schedules' = <<>>
    /\ next_mean' = 1
    /\ pc' = "select"
    /\ UNCHANGED <<possible_daily_dosages, max_period, possible_dosages,
                   next_period, schedules, next_schedule, schedules_by_mean,
                   gp_vars, ds_vars>>

RECURSIVE StddevList(_)
StddevList(group) ==
    IF group = <<>> THEN <<>>
    ELSE Append(StddevList(SubSeq(group, 1, Len(group) - 1)),
                stddev(group[Len(group)]))

RECURSIVE FMin(_)
FMin(xs) ==
    IF Len(xs) = 1 THEN xs[1]
    ELSE LET rest == FMin(Tail(xs))
         IN  IF FLess(rest, Head(xs)) THEN rest ELSE Head(xs)

RECURSIVE IntMin(_)
IntMin(xs) ==
    IF Len(xs) = 1 THEN xs[1]
    ELSE LET rest == IntMin(Tail(xs))
         IN  IF rest < Head(xs) THEN rest ELSE Head(xs)

\* [x for (x, key) in zip(xs, keys) if key == wanted]
RECURSIVE SelectEq(_, _, _)
SelectEq(xs, keys, wanted) ==
    IF xs = <<>> THEN <<>>
    ELSE (IF Head(keys) = wanted THEN <<Head(xs)>> ELSE <<>>)
         \o SelectEq(Tail(xs), Tail(keys), wanted)

RECURSIVE FMax(_)
FMax(xs) ==
    IF Len(xs) = 1 THEN xs[1]
    ELSE LET rest == FMax(Tail(xs))
         IN  IF FLess(Head(xs), rest) THEN rest ELSE Head(xs)

\* mutant: keeps the schedules of the greatest stddev
FilterMinStddev_Max(group) ==
    LET sds == StddevList(group)
    IN  SelectEq(group, sds, FMax(sds))

\* the schedules whose stddev() equals the minimum stddev of the group
FilterMinStddev(group) ==
    LET sds == StddevList(group)
    IN  SelectEq(group, sds, FMin(sds))

\* mutant: no period filter
FilterMinPeriod_None(group) == group

\* the schedules whose period() equals the minimum period of the group
FilterMinPeriod(group) ==
    LET periods == [k \in 1..Len(group) |-> period(group[k])]
    IN  SelectEq(group, periods, IntMin(periods))

\* one iteration of "for mean in means_reachable"
SelectOptimal ==
    /\ pc = "select"
    /\ next_mean <= Len(means_reachable)
    /\ LET group == Lookup(schedules_by_mean, means_reachable[next_mean])
           kept  == FilterMinPeriod(FilterMinStddev(group))
       IN  IF Len(kept) # 1
           THEN /\ pc' = "RuntimeError"
                /\ UNCHANGED <<optimal_schedules, next_mean>>
           ELSE /\ optimal_schedules' = Append(optimal_schedules, kept[1])
                /\ next_mean' = next_mean + 1
                /\ pc' = pc
    /\ UNCHANGED <<possible_daily_dosages, max_period, possible_dosages,
                   next_period, schedules, next_schedule, schedules_by_mean,
                   means_reachable, gp_vars, ds_vars>>

\* the loop is exhausted; the report that follows only prints
SelectDone ==
    /\ pc = "select"
    /\ next_mean > Len(means_reachable)
    /\ pc' = "done"
    /\ UNCHANGED <<possible_daily_dosages, max_period, possible_dosages,
                   next_period, schedules, next_schedule, schedules_by_mean,
                   means_reachable, next_mean, optimal_schedules,
                   gp_vars, ds_vars>>

Next ==
    \/ ParseArgs
    \/ EnumeratePeriod
    \/ EnumerateDone
    \/ GroupSchedule
    \/ GroupDone
    \/ SelectOptimal
    \/ SelectDone

Spec == Init /\ [][Next]_vars

(***************************************************************************)
(* Properties of main()                                                    *)
(***************************************************************************)
RECURSIVE MeanList(_)
MeanList(group) ==
    IF group = <<>> THEN <<>>
    ELSE Append(MeanList(SubSeq(group, 1, Len(group) - 1)),
                mean(group[Len(group)]))

Range(xs) == {xs[k] : k \in 1..Len(xs)}

IndexOf(xs, x) == CHOOSE k \in 1..Len(xs) : xs[k] = x

CountsOf(group) == [k \in 1..Len(group) |-> group[k].counts]

Half == [m |-> <<0, 0, 0, 128>>, e |-> -53]
One == [m |-> <<0, 0, 0, 128>>, e |-> -52]

\* C2: a completed run's optimal_schedules is non-empty, holds enumerated
\* schedules only, is strictly ascending by mean (so no mean occurs twice)
\* and has an entry for every mean that occurs among the enumerated schedules.
C2_OnePerMeanAscending ==
    pc = "done" =>
        LET all == MeanList(schedules)
            opt == [k \in 1..Len(optimal_schedules) |->
                       all[IndexOf(schedules, optimal_schedules[k])]]
        IN  /\ optimal_schedules # <<>>
            /\ Range(optimal_schedules) \subseteq Range(schedules)
            /\ \A k \in 1..(Len(opt) - 1) : FLess(opt[k], opt[k + 1])
            /\ Range(all) = Range(opt)

C2_Witness ==
    /\ pc = "done"
    /\ Len(optimal_schedules) >= 5
    /\ Len(schedules) > Len(optimal_schedules)

C4_NoAmbiguousOptimum == pc # "RuntimeError"

\* C4 amended: the RuntimeError is never raised for a dosage set of at most
\* three values.
C4_NoAmbiguousOptimumUpTo3 ==
    pc = "RuntimeError" => Len(possible_dosages) >= 4

\* a completed run over three dosages in which the filters had to reduce a
\* group of four or more schedules
C4_Witness ==
    /\ pc = "done"
    /\ Len(possible_dosages) = 3
    /\ \E k \in 1..Len(schedules_by_mean) :
           Len(schedules_by_mean[k].schedules) >= 4

\* C8: for dosages {0, 1} and max_period 2 the enumeration is (1,0), (0,1),
\* (2,0), (1,1), (0,2) and the optimal schedules are (1,0), (1,1), (0,1) with
\* means 0, 1/2, 1, periods 1, 2, 1 and stddevs 0, 1/2, 0.
C8_EndToEnd ==
    (pc = "done" /\ possible_dosages = <<0, 4>> /\ max_period = 2) =>
        /\ CountsOf(schedules) = << <<1, 0>>, <<0, 1>>, <<2, 0>>, <<1, 1>>, <<0, 2>> >>
        /\ CountsOf(optimal_schedules) = << <<1, 0>>, <<1, 1>>, <<0, 1>> >>
        /\ MeanList(optimal_schedules) = <<FZero, Half, One>>
        /\ StddevList(optimal_schedules) = <<FZero, Half, FZero>>
        /\ [k \in 1..3 |-> period(optimal_schedules[k])] = <<1, 2, 1>>

C8_Witness ==
    /\ pc = "done" /\ possible_dosages = <<0, 4>> /\ max_period = 2
    /\ Len(optimal_schedules) = 3

SameKey(all, sds, group, i, j) ==
    /\ all[i] = all[j]
    /\ sds[i] = sds[j]
    /\ period(group[i]) = period(group[j])

\* C9 as stated: when a run has ended, any two enumerated schedules with equal
\* mean, stddev and period have the same composition.
C9_KeyDeterminesSchedule ==
    pc \in {"done", "RuntimeError"} =>
        LET all == MeanList(schedules)
            sds == StddevList(schedules)
        IN  \A i, j \in 1..Len(schedules) :
                SameKey(all, sds, schedules, i, j) =>
                    schedules[i].counts = schedules[j].counts

\* C9 amended: for a dosage set of at most three values, when a run has ended,
\* any two enumerated schedules with equal mean, stddev and period have the
\* same composition.
C9_KeyDeterminesScheduleUpTo3 ==
    (pc \in {"done", "RuntimeError"} /\ Len(possible_dosages) <= 3) =>
        LET all == MeanList(schedules)
            sds == StddevList(schedules)
        IN  \A i, j \in 1..Len(schedules) :
                SameKey(all, sds, schedules, i, j) =>
                    schedules[i].counts = schedules[j].counts

\* two different compositions over three dosages with the same mean and
\* period, which only the stddev tells apart
C9_Witness ==
    /\ pc = "done"
    /\ Len(possible_dosages) = 3
    /\ \E i, j \in 1..Len(schedules) :
           /\ schedules[i].counts = <<1, 0, 1>>
           /\ schedules[j].counts = <<0, 2, 0>>

RECURSIVE GcdSeq(_)
GcdSeq(xs) == IF xs = <<>> THEN 0 ELSE Gcd(Head(xs), GcdSeq(Tail(xs)))

\* C10: every schedule of the optimal set is primitive: the greatest common
\* divisor of its counts is 1.
C10_OptimalIsPrimitive ==
    pc = "done" =>
        \A k \in 1..Len(optimal_schedules) :
            GcdSeq(optimal_schedules[k].counts) = 1

(***************************************************************************)
(* One top-level call generate_partitions(gp_num_stacks, gp_total), with   *)
(* the for loop of the call taken one iteration at a time.                 *)
(***************************************************************************)
InitGen ==
    /\ gp_pc = "call"
    /\ gp_num_stacks \in 0..MaxStacks
    /\ gp_total \in 0..MaxTotal
    /\ gp_last_stack = 0
    /\ gp_solutions = <<>>
    /\ MainIdle /\ DsIdle

GPEnter ==
    /\ gp_pc = "call"
    /\ IF gp_num_stacks = 0
       THEN /\ gp_solutions' = (IF gp_total = 0 THEN << <<>> >> ELSE <<>>)
            /\ gp_pc' = "returned"
       ELSE /\ gp_solutions' = <<>>
            /\ gp_pc' = "loop"
    /\ UNCHANGED <<gp_num_stacks, gp_total, gp_last_stack, main_vars, ds_vars>>

GPIterate ==
    /\ gp_pc = "loop"
    /\ gp_last_stack <= LastStackBound(gp_total)
    /\ gp_solutions' = gp_solutions \o
           ExtendSolutions(generate_partitions(gp_num_stacks - 1,
                                               gp_total - gp_last_stack),
                           gp_last_stack)
    /\ gp_last_stack' = gp_last_stack + 1
    /\ UNCHANGED <<gp_pc, gp_num_stacks, gp_total, main_vars, ds_vars>>

GPReturn ==
    /\ gp_pc = "loop"
    /\ gp_last_stack > LastStackBound(gp_total)
    /\ gp_pc' = "returned"
    /\ UNCHANGED <<gp_num_stacks, gp_total, gp_last_stack, gp_solutions,
                   main_vars, ds_vars>>

NextGen == GPEnter \/ GPIterate \/ GPReturn

SpecGen == InitGen /\ [][NextGen]_vars

\* C1: for num_stacks >= 1 the call returns C(total + num_stacks - 1,
\* num_stacks - 1) tuples, each of num_stacks non-negative entries that sum
\* to total, and no tuple twice.
C1_AllCompositions ==
    (gp_pc = "returned" /\ gp_num_stacks >= 1) =>
        /\ Len(gp_solutions) =
               Binomial(gp_total + gp_num_stacks - 1, gp_num_stacks - 1)
        /\ \A k \in 1..Len(gp_solutions) :
               /\ Len(gp_solutions[k]) = gp_num_stacks
               /\ \A i \in 1..gp_num_stacks : gp_solutions[k][i] \in Nat
               /\ SumSeq(gp_solutions[k]) = gp_total
        /\ Cardinality(Range(gp_solutions)) = Len(gp_solutions)

C1_Witness ==
    /\ gp_pc = "returned" /\ gp_num_stacks = 3 /\ gp_total = 4
    /\ Len(gp_solutions) = 15

(***************************************************************************)
(* One DosageSchedule, built from any dosage list and any counts, and its  *)
(* methods called in the order of the report line: mean(), stddev(),       *)
(* period(), schedule_as_string().                                         *)
(***************************************************************************)
MaxCountsLen == 4

ScheduleDosages == { <<0, 2, 4, 8>>, <<1, 6, 7>>, <<36, 40>>, <<10>> }

InitSched ==
    /\ ds_pc = "new"
    /\ ds_possible_dosages \in ScheduleDosages
    /\ \E n \in 0..MaxCountsLen :
           /\ n \in (Len(ds_possible_dosages) - 1)..(Len(ds_possible_dosages) + 1)
           /\ ds_counts \in [1..n -> 0..MaxCount]
    /\ ds_schedule = None /\ ds_mean = None /\ ds_stddev = None
    /\ ds_period = None /\ ds_string = None
    /\ MainIdle /\ GpIdle

\* DosageSchedule is a NamedTuple: the constructor stores its two arguments
Construct ==
    /\ ds_pc = "new"
    /\ ds_schedule' = DosageSchedule(ds_possible_dosages, ds_counts)
    /\ ds_pc' = "constructed"
    /\ UNCHANGED <<ds_possible_dosages, ds_counts, ds_mean, ds_stddev,
                   ds_period, ds_string, main_vars, gp_vars>>

CallMean ==
    /\ ds_pc = "constructed"
    /\ IF period(ds_schedule) = 0
       THEN /\ ds_pc' = "ZeroDivisionError"
            /\ UNCHANGED ds_mean
       ELSE /\ ds_mean' = mean(ds_schedule)
            /\ ds_pc' = "mean"
    /\ UNCHANGED <<ds_possible_dosages, ds_counts, ds_schedule, ds_stddev,
                   ds_period, ds_string, main_vars, gp_vars>>

CallStddev ==
    /\ ds_pc = "mean"
    /\ ds_stddev' = stddev(ds_schedule)
    /\ ds_pc' = "stddev"
    /\ UNCHANGED <<ds_possible_dosages, ds_counts, ds_schedule, ds_mean,
                   ds_period, ds_string, main_vars, gp_vars>>

CallPeriod ==
    /\ ds_pc = "stddev"
    /\ ds_period' = period(ds_schedule)
    /\ ds_pc' = "period"
    /\ UNCHANGED <<ds_possible_dosages, ds_counts, ds_schedule, ds_mean,
                   ds_stddev, ds_string, main_vars, gp_vars>>

CallString ==
    /\ ds_pc = "period"
    /\ ds_string' = schedule_as_string(ds_schedule)
    /\ ds_pc' = "reported"
    /\ UNCHANGED <<ds_possible_dosages, ds_counts, ds_schedule, ds_mean,
                   ds_stddev, ds_period, main_vars, gp_vars>>

NextSched == Construct \/ CallMean \/ CallStddev \/ CallPeriod \/ CallString

SpecSched == InitSched /\ [][NextSched]_vars

Mismatched == Len(ds_counts) # Len(ds_possible_dosages)

\* the sum of the first n entries of xs
RECURSIVE PrefixSum(_, _)
PrefixSum(xs, n) == IF n = 0 THEN 0 ELSE xs[n] + PrefixSum(xs, n - 1)

\* the symbol of the dosage q / 4: the digit for the integers 0..9, h for
\* 1/2, k for 1/4, a for 3/2, otherwise the fraction in parentheses
Symbol(q) ==
    IF q % 4 = 0 /\ q \div 4 <= 9 THEN <<DigitChar(q \div 4)>>
    ELSE IF q = 2 THEN <<"h">>
    ELSE IF q = 1 THEN <<"k">>
    ELSE IF q = 6 THEN <<"a">>
    ELSE <<"(">> \o FractionStr(q) \o <<")">>

\* the symbols of dosages[k..n], each repeated counts[k] times
RECURSIVE Encoding(_, _, _, _)
Encoding(dosages, counts, k, n) ==
    IF k > n THEN <<>>
    ELSE [i \in 1..(counts[k] * Len(Symbol(dosages[k]))) |->
             Symbol(dosages[k])[((i - 1) % Len(Symbol(dosages[k]))) + 1]]
         \o Encoding(dosages, counts, k + 1, n)

UsedDosages == {ds_possible_dosages[k] : k \in {i \in 1..Len(ds_counts) : ds_counts[i] # 0}}
LeastUsed == CHOOSE q \in UsedDosages : \A r \in UsedDosages : q <= r
GreatestUsed == CHOOSE q \in UsedDosages : \A r \in UsedDosages : q >= r

\* C6: for a schedule with matching lengths and period >= 1, period() is the
\* sum of the counts and mean() lies between the least and the greatest
\* dosage that has a non-zero count.
C6_PeriodAndMeanInterval ==
    (~Mismatched /\ ds_pc \in {"mean", "stddev", "period", "reported"}) =>
        /\ FLeq(FFromRatio(LeastUsed, 4), ds_mean)
        /\ FLeq(ds_mean, FFromRatio(GreatestUsed, 4))
        /\ ds_pc \in {"period", "reported"} =>
               /\ ds_period = PrefixSum(ds_counts, Len(ds_counts))
               /\ ds_period >= 1

\* a mean strictly inside the interval
C6_Witness ==
    /\ ~Mismatched /\ ds_pc = "reported"
    /\ LeastUsed < GreatestUsed
    /\ FLess(FFromRatio(LeastUsed, 4), ds_mean)
    /\ FLess(ds_mean, FFromRatio(GreatestUsed, 4))
    /\ ds_period = 3

\* C7: schedule_as_string() is the concatenation, in dosage order, of each
\* dosage's symbol repeated count times; {0, 1/2, 1, 2} with counts
\* (1, 2, 0, 1) gives "0hh2".
C7_Encoding ==
    (~Mismatched /\ ds_pc = "reported") =>
        /\ ds_string = Encoding(ds_possible_dosages, ds_counts, 1, Len(ds_counts))
        /\ (ds_possible_dosages = <<0, 2, 4, 8>> /\ ds_counts = <<1, 2, 0, 1>>) =>
               ds_string = <<"0", "h", "h", "2">>

C7_Witness ==
    /\ ds_pc = "reported"
    /\ ds_possible_dosages = <<0, 2, 4, 8>> /\ ds_counts = <<1, 2, 0, 1>>
    /\ ds_string = <<"0", "h", "h", "2">>

====
